---- MODULE Spec2Model ----
(***************************************************************************)
(* Model of packages/browser-vm/src/proxyInterceptor/shared.ts:            *)
(*   - verifyGetterDescriptor / verifySetterDescriptor / verifySetter      *)
(*   - bind / transferProps                                                *)
(*   - observerModule (ProxyMutationObserver, recover)                     *)
(* JavaScript values are records [k |-> kind, n |-> payload].              *)
(***************************************************************************)
EXTENDS Integers, Sequences, FiniteSets, TLC

VARIABLES
  objects,        \* verify: object id -> own descriptor of property p (or Undefined)
  verdict,        \* verify: the last checker call, its arguments and its result
  heap,           \* bind: object id -> JavaScript object (prototype link, own properties, function slots)
  trace,          \* bind: the last bind / call / construction and what it did
  disableCollect, \* observer: sandbox -> _sandbox.options.disableCollect
  observerSet,    \* observer: sandbox -> observerSet of its observerModule (insertion ordered)
  observers,      \* observer: the ProxyMutationObserver instances created so far
  recovered,      \* observer: sandbox -> recover() has been called on it
  lastOp          \* observer: the last operation performed

vars == <<objects, verdict, heap, trace, disableCollect, observerSet, observers, recovered, lastOp>>

verifyVars == <<objects, verdict>>
bindVars == <<heap, trace>>
observerVars == <<disableCollect, observerSet, observers, recovered, lastOp>>

(***************************************************************************)
(* JavaScript values                                                       *)
(***************************************************************************)
Undefined == [k |-> "undefined", n |-> 0]
Null == [k |-> "null", n |-> 0]
NaN == [k |-> "NaN", n |-> 0]
PosZero == [k |-> "number", n |-> 0]
NegZero == [k |-> "-0", n |-> 0]
Num(i) == [k |-> "number", n |-> i]
True == [k |-> "boolean", n |-> 1]
False == [k |-> "boolean", n |-> 0]
Obj(i) == [k |-> "object", n |-> i]
Str(i) == [k |-> "string", n |-> i]

\* ToBoolean, as used by `a ? b : c` and `a || b`
ToBoolean(v) ==
  CASE v.k = "undefined" -> FALSE
    [] v.k = "null" -> FALSE
    [] v.k = "NaN" -> FALSE
    [] v.k = "-0" -> FALSE
    [] v.k = "number" -> v.n # 0
    [] v.k = "boolean" -> v.n = 1
    [] v.k = "string" -> v.n # 0
    [] OTHER -> TRUE

\* a === b : NaN is unequal to itself, +0 and -0 are equal
StrictEquals(a, b) ==
  IF a.k = "NaN" \/ b.k = "NaN" THEN FALSE
  ELSE IF a \in {PosZero, NegZero} /\ b \in {PosZero, NegZero} THEN TRUE
  ELSE a = b

\* Object.is(a, b) (SameValue): NaN is NaN, +0 is not -0
ObjectIs(a, b) == a = b

(***************************************************************************)
(* Descriptor invariant checker                                            *)
(***************************************************************************)
\* the largest ordinary number among the values tried
MaxNum == 1

StoredValues == {NaN, PosZero, NegZero} \cup {Num(i) : i \in 1..MaxNum}

\* what Object.getOwnPropertyDescriptor can return for a data property
DataDescriptors ==
  [value : StoredValues, writable : BOOLEAN, configurable : BOOLEAN]

\* ... and for an accessor property (get / set: a function or undefined)
AccessorDescriptors ==
  [get : {Undefined, Obj(0)}, set : {Undefined, Obj(0)}, configurable : BOOLEAN]

Descriptors == DataDescriptors \cup AccessorDescriptors \cup {Undefined}

\* the objects handed to the checker: 1 the proxy's alternate target,
\* 2 the target, 3 the receiver, whose prototype is the target
VerifyObjects == {1, 2, 3}
ProtoOf(o) == IF o = 3 THEN 2 ELSE 0

isDataDescriptor(desc) ==
  IF desc = Undefined THEN FALSE
  ELSE "value" \in DOMAIN desc \/ "writable" \in DOMAIN desc

isAccessorDescriptor(desc) ==
  IF desc = Undefined THEN FALSE
  ELSE "get" \in DOMAIN desc \/ "set" \in DOMAIN desc

\* a lookup that also walks the prototype chain (what the checker must not do)
GetInheritedPropertyDescriptor(target) ==
  IF target.k # "object" THEN Undefined
  ELSE IF objects[target.n] # Undefined THEN objects[target.n]
  ELSE IF ProtoOf(target.n) # 0 THEN objects[ProtoOf(target.n)]
  ELSE Undefined

\* Object.getOwnPropertyDescriptor(target, p); a primitive has no own p
GetOwnPropertyDescriptor(target) ==
  IF target.k # "object" THEN Undefined ELSE objects[target.n]

\* a checker that compares with === instead of Object.is
verifyGetterDescriptor_strictEquals(target, newValue) ==
  LET desc == GetOwnPropertyDescriptor(target) IN
  IF desc # Undefined /\ desc.configurable = FALSE
  THEN IF isDataDescriptor(desc) /\ desc.writable = FALSE
       THEN IF ~StrictEquals(newValue, desc.value) THEN 1 ELSE 0
       ELSE IF isAccessorDescriptor(desc) /\ desc.get = Undefined THEN 2
       ELSE 0
  ELSE 0

verifyGetterDescriptor(target, newValue) ==
  LET desc == GetOwnPropertyDescriptor(target) IN
  IF desc # Undefined /\ desc.configurable = FALSE
  THEN IF isDataDescriptor(desc) /\ desc.writable = FALSE
       THEN IF ~ObjectIs(newValue, desc.value) THEN 1 ELSE 0
       ELSE IF isAccessorDescriptor(desc) /\ desc.get = Undefined THEN 2
       ELSE 0
  ELSE 0

\* a checker that consults inherited descriptors too
verifySetterDescriptor_inherited(target, newValue) ==
  LET desc == GetInheritedPropertyDescriptor(target) IN
  IF desc # Undefined /\ desc.configurable = FALSE
  THEN IF isDataDescriptor(desc) /\ desc.writable = FALSE
       THEN IF ~ObjectIs(newValue, desc.value) THEN 1 ELSE 3
       ELSE IF isAccessorDescriptor(desc) /\ desc.set = Undefined THEN 2
       ELSE 0
  ELSE 0

verifySetterDescriptor(target, newValue) ==
  LET desc == GetOwnPropertyDescriptor(target) IN
  IF desc # Undefined /\ desc.configurable = FALSE
  THEN IF isDataDescriptor(desc) /\ desc.writable = FALSE
       THEN IF ~ObjectIs(newValue, desc.value) THEN 1 ELSE 3
       ELSE IF isAccessorDescriptor(desc) /\ desc.set = Undefined THEN 2
       ELSE 0
  ELSE 0

\* an authority choice that prefers the target to the receiver
Authority_targetFirst(proxyTarget, target, receiver) ==
  IF ToBoolean(proxyTarget) THEN proxyTarget
  ELSE IF ToBoolean(target) THEN target ELSE receiver

\* proxyTarget ? proxyTarget : (receiver || target)
Authority(proxyTarget, target, receiver) ==
  IF ToBoolean(proxyTarget) THEN proxyTarget
  ELSE IF ToBoolean(receiver) THEN receiver ELSE target

verifySetter(proxyTarget, target, val, receiver) ==
  LET verifyResult ==
        verifySetterDescriptor(Authority(proxyTarget, target, receiver), val) IN
  IF verifyResult > 0
  THEN IF verifyResult = 1 \/ verifyResult = 2 THEN False
       ELSE IF verifyResult = 3 THEN True ELSE Undefined
  ELSE Undefined

NoVerdict ==
  [op |-> "none", proxyTarget |-> Undefined, target |-> Undefined,
   receiver |-> Undefined, val |-> Undefined, code |-> 0, result |-> Undefined]

VerifyIdle == objects = [o \in VerifyObjects |-> Undefined] /\ verdict = NoVerdict

\* The checker is pure and keeps nothing between calls: a run draws the three
\* objects' descriptors and makes one call.
InitVerify ==
  /\ objects \in [VerifyObjects -> Descriptors]
  /\ verdict = NoVerdict

CallVerifyGetterDescriptor ==
  \E t \in VerifyObjects, v \in StoredValues :
    /\ verdict = NoVerdict
    /\ verdict' = [NoVerdict EXCEPT !.op = "verifyGetterDescriptor",
                     !.target = Obj(t), !.val = v,
                     !.code = verifyGetterDescriptor(Obj(t), v)]
    /\ UNCHANGED objects

CallVerifySetterDescriptor ==
  \E t \in VerifyObjects, v \in StoredValues :
    /\ verdict = NoVerdict
    /\ verdict' = [NoVerdict EXCEPT !.op = "verifySetterDescriptor",
                     !.target = Obj(t), !.val = v,
                     !.code = verifySetterDescriptor(Obj(t), v)]
    /\ UNCHANGED objects

CallVerifySetter ==
  \E pt \in {Undefined, Obj(1)}, r \in {Undefined, Null, Obj(3)}, v \in StoredValues :
    /\ verdict = NoVerdict
    /\ verdict' = [NoVerdict EXCEPT !.op = "verifySetter",
                     !.proxyTarget = pt, !.target = Obj(2), !.receiver = r,
                     !.val = v,
                     !.result = verifySetter(pt, Obj(2), v, r)]
    /\ UNCHANGED objects

NextVerify ==
  \/ CallVerifyGetterDescriptor /\ UNCHANGED <<bindVars, observerVars>>
  \/ CallVerifySetterDescriptor /\ UNCHANGED <<bindVars, observerVars>>
  \/ CallVerifySetter /\ UNCHANGED <<bindVars, observerVars>>

(***************************************************************************)
(* Scoped resource tracker: observerModule                                 *)
(***************************************************************************)
\* observers that may be constructed, and individual disconnect() calls in a run
MaxObservers == 2
MaxDisconnects == 2

Sandboxes == {"A", "B"}
ObserverIds == 1..MaxObservers

NoOp == [op |-> "none", sandbox |-> "A", observer |-> 0, first |-> FALSE]

\* observerSet.has(o)
SetHas(set, o) == \E i \in 1..Len(set) : set[i] = o

\* observerSet.add(o): a Set keeps insertion order and no duplicates
SetAdd(set, o) == IF SetHas(set, o) THEN set ELSE Append(set, o)

\* observerSet.delete(o)
SetDelete(set, o) == SelectSeq(set, LAMBDA x : x # o)

\* super.disconnect(): the real MutationObserver disposal, counted per caller
superDisconnect(obs, o, by) ==
  IF by = "recover"
  THEN [obs EXCEPT ![o].recovery = @ + 1]
  ELSE [obs EXCEPT ![o].individual = @ + 1]

\* a disconnect() that forgets to remove the observer from the set
disconnect_noDelete(set, obs, o, by) ==
  [set |-> set, obs |-> superDisconnect(obs, o, by)]

\* ProxyMutationObserver.disconnect() on observer o of a module whose set is `set`
disconnect(set, obs, o, by) ==
  [set |-> IF SetHas(set, o) THEN SetDelete(set, o) ELSE set,
   obs |-> superDisconnect(obs, o, by)]

\* the body of observerSet.forEach in recover: entries are visited in insertion
\* order, an entry deleted while iterating is not visited again
RECURSIVE forEachObserver(_, _, _)
forEachObserver(pending, set, obs) ==
  IF pending = <<>> THEN [set |-> set, obs |-> obs]
  ELSE LET o == Head(pending) IN
       IF ~SetHas(set, o) THEN forEachObserver(Tail(pending), set, obs)
       ELSE IF obs[o].callable
       THEN LET r == disconnect(set, obs, o, "recover") IN
            forEachObserver(Tail(pending), r.set, r.obs)
       ELSE forEachObserver(Tail(pending), set, obs)

\* recover(): forEach, then observerSet.clear()
recover(set, obs) ==
  [set |-> <<>>, obs |-> forEachObserver(set, set, obs).obs]

\* a constructor that ignores options.disableCollect
construct_always(set, collectDisabled, o) == SetAdd(set, o)

\* new ProxyMutationObserver(cb) through sandbox s's override
construct(set, collectDisabled, o) ==
  IF ~collectDisabled THEN SetAdd(set, o) ELSE set

ObserverIdle ==
  /\ disableCollect = [s \in Sandboxes |-> FALSE]
  /\ observerSet = [s \in Sandboxes |-> <<>>]
  /\ observers = <<>>
  /\ recovered = [s \in Sandboxes |-> FALSE]
  /\ lastOp = NoOp

InitObserver ==
  /\ disableCollect \in [Sandboxes -> BOOLEAN]
  /\ observerSet = [s \in Sandboxes |-> <<>>]
  /\ observers = <<>>
  /\ recovered = [s \in Sandboxes |-> FALSE]
  /\ lastOp = NoOp

\* a module that keeps one process-wide set (sandbox A's) for every sandbox
Construct_shared(s) ==
  /\ Len(observers) < MaxObservers
  /\ LET o == Len(observers) + 1 IN
     /\ observers' = Append(observers,
          [owner |-> s, collected |-> ~disableCollect[s], callable |-> TRUE,
           individual |-> 0, recovery |-> 0])
     /\ observerSet' = [observerSet EXCEPT !["A"] = construct(@, disableCollect[s], o)]
     /\ lastOp' = [NoOp EXCEPT !.op = "construct", !.sandbox = s, !.observer = o]
  /\ UNCHANGED <<disableCollect, recovered>>

\* guest code: new MutationObserver(cb) inside sandbox s
Construct(s) ==
  /\ Len(observers) < MaxObservers
  /\ LET o == Len(observers) + 1 IN
     /\ observers' = Append(observers,
          [owner |-> s, collected |-> ~disableCollect[s], callable |-> TRUE,
           individual |-> 0, recovery |-> 0])
     /\ observerSet' = [observerSet EXCEPT ![s] = construct(@, disableCollect[s], o)]
     /\ lastOp' = [NoOp EXCEPT !.op = "construct", !.sandbox = s, !.observer = o]
  /\ UNCHANGED <<disableCollect, recovered>>

\* individual disconnect() calls made so far
RECURSIVE DisconnectCalls(_)
DisconnectCalls(obs) ==
  IF obs = <<>> THEN 0 ELSE Head(obs).individual + DisconnectCalls(Tail(obs))

\* guest code: observer.disconnect()
Disconnect(o) ==
  /\ o \in 1..Len(observers)
  /\ observers[o].callable
  /\ DisconnectCalls(observers) < MaxDisconnects
  /\ LET s == observers[o].owner
         r == disconnect(observerSet[s], observers, o, "individual") IN
     /\ observerSet' = [observerSet EXCEPT ![s] = r.set]
     /\ observers' = r.obs
     /\ lastOp' = [NoOp EXCEPT !.op = "disconnect", !.sandbox = s, !.observer = o]
  /\ UNCHANGED <<disableCollect, recovered>>

\* guest code overwrites observer.disconnect with something that is not a function
Shadow(o) ==
  /\ o \in 1..Len(observers)
  /\ observers[o].callable
  /\ observers' = [observers EXCEPT ![o].callable = FALSE]
  /\ lastOp' = [NoOp EXCEPT !.op = "shadow", !.sandbox = observers[o].owner, !.observer = o]
  /\ UNCHANGED <<disableCollect, observerSet, recovered>>

\* sandbox teardown: recover()
Recover(s) ==
  /\ LET r == recover(observerSet[s], observers) IN
     /\ observerSet' = [observerSet EXCEPT ![s] = r.set]
     /\ observers' = r.obs
  /\ recovered' = [recovered EXCEPT ![s] = TRUE]
  /\ lastOp' = [NoOp EXCEPT !.op = "recover", !.sandbox = s, !.first = ~recovered[s]]
  /\ UNCHANGED disableCollect

\* the sandbox's owner changes options.disableCollect
SetDisableCollect(s) ==
  /\ disableCollect' = [disableCollect EXCEPT ![s] = ~@]
  /\ lastOp' = [NoOp EXCEPT !.op = "option", !.sandbox = s]
  /\ UNCHANGED <<observerSet, observers, recovered>>

NextObserver ==
  \/ \E s \in Sandboxes : Construct(s) /\ UNCHANGED <<verifyVars, bindVars>>
  \/ \E o \in ObserverIds : Disconnect(o) /\ UNCHANGED <<verifyVars, bindVars>>
  \/ \E o \in ObserverIds : Shadow(o) /\ UNCHANGED <<verifyVars, bindVars>>
  \/ \E s \in Sandboxes : Recover(s) /\ UNCHANGED <<verifyVars, bindVars>>
  \/ \E s \in Sandboxes : SetDisableCollect(s) /\ UNCHANGED <<verifyVars, bindVars>>

(***************************************************************************)
(* Function identity binder: bind / transferProps                          *)
(***************************************************************************)
\* how many times bind may be applied in one run (a wrapper can be bound again)
MaxBinds == 2

\* own property keys of function objects; "@@hasInstance" is Symbol.hasInstance
KeyOrder ==
  <<"length", "name", "prototype", "arguments", "caller", "callee",
    "$native", "k", "@@hasInstance">>
Keys == {KeyOrder[i] : i \in 1..Len(KeyOrder)}

\* own property slots
Absent == [kind |-> "absent", value |-> Undefined, writable |-> FALSE, configurable |-> FALSE]
Data(v, w, c) == [kind |-> "data", value |-> v, writable |-> w, configurable |-> c]
\* an accessor with a getter that returns v (and no setter)
Accessor(v, c) == [kind |-> "accessor", value |-> v, writable |-> FALSE, configurable |-> c]

NoProps == [key \in Keys |-> Absent]

\* the built-in Function.prototype[Symbol.hasInstance], and the closure that
\* bind installs on the wrapper of function f (lines 186-191)
OrdinaryHasInstanceFn == [k |-> "hasInstanceFn", n |-> 0]
BoundHasInstanceFn(f) == [k |-> "hasInstanceFn", n |-> f]

PlainObject(proto) ==
  [proto |-> proto, fn |-> "none", target |-> 0, context |-> Undefined, props |-> NoProps]

\* fixed objects of a run
ObjectPrototype == 1
FunctionPrototype == 2
FPrototype == 3
F == 4
Unrelated == 5
Instance == 6
Native == 7

IsObjectValue(v) == v.k = "object"

\* isObject(v) of @garfish/utils: a non-null value whose typeof is "object"
isObject(h, v) == IsObjectValue(v) /\ h[v.n].fn = "none"

\* typeof v === 'function'
IsFunction(h, v) == IsObjectValue(v) /\ h[v.n].fn # "none"

\* the property slot that a lookup of key on object o finds, own or inherited
RECURSIVE FindSlot(_, _, _)
FindSlot(h, o, key) ==
  IF h[o].props[key].kind # "absent" THEN h[o].props[key]
  ELSE IF IsObjectValue(h[o].proto) THEN FindSlot(h, h[o].proto.n, key)
  ELSE Absent

\* o[key]
Get(h, o, key) == FindSlot(h, o, key).value

\* Object.getOwnPropertyDescriptor(o, key)
OwnDesc(h, o, key) == h[o].props[key]

\* Reflect.ownKeys(o)
ownKeys(h, o) == SelectSeq(KeyOrder, LAMBDA key : h[o].props[key].kind # "absent")

\* o[key] = v in strict mode code: [ok |-> FALSE] stands for the TypeError
Assign(h, o, key, v) ==
  LET own == h[o].props[key]
      inherited == IF IsObjectValue(h[o].proto)
                   THEN FindSlot(h, h[o].proto.n, key) ELSE Absent IN
  IF own.kind = "data"
  THEN IF own.writable
       THEN [ok |-> TRUE, h |-> [h EXCEPT ![o].props[key].value = v]]
       ELSE [ok |-> FALSE, h |-> h]
  ELSE IF own.kind = "accessor" THEN [ok |-> FALSE, h |-> h]
  ELSE IF inherited.kind = "accessor" \/ (inherited.kind = "data" /\ ~inherited.writable)
  THEN [ok |-> FALSE, h |-> h]
  ELSE [ok |-> TRUE, h |-> [h EXCEPT ![o].props[key] = Data(v, TRUE, TRUE)]]

\* Object.defineProperty(o, key, {value, writable, enumerable, configurable})
DefineProperty(h, o, key, v, w, c) ==
  LET own == h[o].props[key] IN
  IF own.kind # "absent" /\ ~own.configurable
  THEN [ok |-> FALSE, h |-> h]
  ELSE [ok |-> TRUE, h |-> [h EXCEPT ![o].props[key] = Data(v, w, c)]]

\* the walk of OrdinaryHasInstance: is object P on the prototype chain of o
RECURSIVE OnPrototypeChain(_, _, _)
OnPrototypeChain(h, o, P) ==
  IF ~IsObjectValue(h[o].proto) THEN FALSE
  ELSE IF h[o].proto.n = P THEN TRUE
  ELSE OnPrototypeChain(h, h[o].proto.n, P)

\* v instanceof C, for a function C whose Symbol.hasInstance is the built-in
\* one or the closure bind installs
RECURSIVE instanceOf(_, _, _)
instanceOf(h, v, C) ==
  LET handler == Get(h, C, "@@hasInstance") IN
  IF handler = OrdinaryHasInstanceFn
  THEN /\ IsObjectValue(v)
       /\ IsObjectValue(Get(h, C, "prototype"))
       /\ OnPrototypeChain(h, v.n, Get(h, C, "prototype").n)
  ELSE \* the closure of lines 186-191, fn captured
       LET fn == handler.n
           op == Get(h, fn, "prototype") IN
       IF isObject(h, op) \/ IsFunction(h, op)
       THEN instanceOf(h, v, fn)
       ELSE FALSE

\* the names transferProps never copies
buildInProps(key) ==
  key \in {"length", "caller", "callee", "arguments", "prototype", "@@hasInstance"}

\* a transfer that has no defineProperty fallback
transferKey_assignOnly(st, source, target, key) ==
  IF buildInProps(key) THEN st
  ELSE
    LET sourceDesc == OwnDesc(st.h, source, key)
        targetDesc == OwnDesc(st.h, target, key) IN
    IF targetDesc.kind # "absent" /\ ~targetDesc.configurable THEN st
    ELSE IF sourceDesc.kind = "absent" THEN st
    ELSE LET a == Assign(st.h, target, key, Get(st.h, source, key)) IN
         IF a.ok THEN [h |-> a.h, copied |-> st.copied \cup {key}] ELSE st

\* one round of the loop of transferProps, for one key of source
transferKey(st, source, target, key) ==
  IF buildInProps(key) THEN st
  ELSE
    LET sourceDesc == OwnDesc(st.h, source, key)
        targetDesc == OwnDesc(st.h, target, key) IN
    IF targetDesc.kind # "absent" /\ ~targetDesc.configurable THEN st
    ELSE IF sourceDesc.kind = "absent" THEN st
    ELSE LET a == Assign(st.h, target, key, Get(st.h, source, key)) IN
         IF a.ok THEN [h |-> a.h, copied |-> st.copied \cup {key}]
         ELSE LET d == DefineProperty(st.h, target, key, Get(st.h, source, key),
                                      sourceDesc.kind = "data" /\ sourceDesc.writable,
                                      sourceDesc.configurable) IN
              IF d.ok THEN [h |-> d.h, copied |-> st.copied \cup {key}]
              ELSE st

RECURSIVE transferLoop(_, _, _, _)
transferLoop(st, source, target, keys) ==
  IF keys = <<>> THEN st
  ELSE transferLoop(transferKey(st, source, target, Head(keys)), source, target, Tail(keys))

\* transferProps(source, target): the heap afterwards and the keys it wrote
transferProps(h, source, target) ==
  transferLoop([h |-> h, copied |-> {}], source, target, ownKeys(h, source))

\* bound.$native = fn (line 173)
recordNative(h, bound, fn) == Assign(h, bound, "$native", Obj(fn)).h

\* bind(fn, context): allocates, in this order, the default prototype objects of
\* `bound` and of fNOP, the function `bound`, and `new fNOP()`
bind(h, fn, context) ==
  LET n == Len(h)
      boundDefaultProto == n + 1
      fNOPDefaultProto == n + 2
      bound == n + 3
      boundProto == n + 4
      h1 == h \o << PlainObject(Obj(ObjectPrototype)), PlainObject(Obj(ObjectPrototype)),
                    [proto |-> Obj(FunctionPrototype), fn |-> "bound", target |-> fn,
                     context |-> context,
                     props |-> [NoProps EXCEPT
                        !["length"] = Data(PosZero, FALSE, TRUE),
                        !["name"] = Data(Str(1), FALSE, TRUE),
                        !["prototype"] = Data(Obj(boundDefaultProto), TRUE, FALSE)]] >>
      h2 == recordNative(h1, bound, fn)
      t == transferProps(h2, fn, bound)
      fNOPprototype == IF ToBoolean(Get(t.h, fn, "prototype"))
                       THEN Get(t.h, fn, "prototype") ELSE Obj(fNOPDefaultProto)
      \* new fNOP(): the prototype link is fNOP.prototype when that is an object
      h3 == t.h \o << PlainObject(IF IsObjectValue(fNOPprototype)
                                  THEN fNOPprototype ELSE Obj(ObjectPrototype)) >>
      h4 == Assign(h3, bound, "prototype", Obj(boundProto)).h
      h5 == DefineProperty(h4, bound, "@@hasInstance", BoundHasInstanceFn(fn), FALSE, TRUE).h
  IN [h |-> h5, bound |-> bound, copied |-> t.copied]

\* handlerParams(arguments): the arguments as an array
handlerParams(args) == [i \in 1..Len(args) |-> args[i]]

\* what a native (not bound) function of a run does: called, it returns a value
\* that tells its invocation context and arguments; constructed, it returns the
\* new object, whose prototype link it takes from newTarget.prototype
NativeReturn(thisArg, args) == [k |-> "returned", n |-> 0, this |-> thisArg, args |-> args]

\* OrdinaryCreateFromConstructor(newTarget, %Object.prototype%)
CreateFromConstructor(h, newTarget) ==
  LET p == Get(h, newTarget, "prototype") IN
  h \o << PlainObject(IF IsObjectValue(p) THEN p ELSE Obj(ObjectPrototype)) >>

\* Object.setPrototypeOf(obj, proto)
setPrototypeOf(h, obj, proto) == [h EXCEPT ![obj].proto = proto]

\* the test `this instanceof bound` of line 163
isConstructCall(h, thisArg, bound) == instanceOf(h, thisArg, bound)

\* f.apply(thisArg, args) and new f(...args) for a native function or a wrapper;
\* the result carries the heap, the value returned and the invocations of
\* functions by wrappers, outermost first
RECURSIVE Invoke(_, _, _, _, _)
runBound(h, bound, thisArg, arguments) ==
  LET args == handlerParams(arguments)
      fn == h[bound].target IN
  IF isConstructCall(h, thisArg, bound)
  THEN LET r == Invoke(h, fn, "construct", Undefined, args)
           obj == r.result IN
       [h |-> setPrototypeOf(r.h, obj.n, Get(r.h, bound, "prototype")),
        result |-> obj,
        calls |-> <<[fn |-> fn, mode |-> "construct", this |-> Undefined, args |-> args]>>
                  \o r.calls]
  ELSE LET r == Invoke(h, fn, "apply", h[bound].context, args) IN
       [h |-> r.h, result |-> r.result,
        calls |-> <<[fn |-> fn, mode |-> "apply", this |-> h[bound].context, args |-> args]>>
                  \o r.calls]

Invoke(h, f, mode, thisArg, args) ==
  IF mode = "apply"
  THEN IF h[f].fn = "bound" THEN runBound(h, f, thisArg, args)
       ELSE [h |-> h, result |-> NativeReturn(thisArg, args), calls |-> <<>>]
  ELSE LET h1 == CreateFromConstructor(h, f)
           this == Obj(Len(h1)) IN
       IF h[f].fn = "bound"
       THEN LET r == runBound(h1, f, this, args) IN
            \* [[Construct]]: an object returned by the body wins over `this`
            IF IsObjectValue(r.result) THEN r
            ELSE [h |-> r.h, result |-> this, calls |-> r.calls]
       ELSE [h |-> h1, result |-> this, calls |-> <<>>]

NoTrace ==
  [op |-> "none", wrapper |-> 0, fn |-> 0, receiver |-> Undefined, args |-> <<>>,
   calls |-> <<>>, result |-> Undefined, resultProto |-> Undefined, copied |-> {}]

BindIdle == heap = <<>> /\ trace = NoTrace

\* the function F that a run binds: its prototype property, its static
\* properties and whether it is a sloppy-mode function with own caller/arguments
FProps(protoKind, kSlot, hasNative, hasOwnHasInstance, sloppy) ==
  [NoProps EXCEPT
     !["length"] = Data(Num(2), FALSE, TRUE),
     !["name"] = Data(Str(2), FALSE, TRUE),
     !["prototype"] = CASE protoKind = "object" -> Data(Obj(FPrototype), TRUE, FALSE)
                        [] protoKind = "null" -> Data(Null, TRUE, FALSE)
                        [] OTHER -> Absent,
     !["k"] = kSlot,
     !["$native"] = IF hasNative THEN Data(Obj(Native), TRUE, TRUE) ELSE Absent,
     !["@@hasInstance"] = IF hasOwnHasInstance
                          THEN Data(OrdinaryHasInstanceFn, FALSE, FALSE) ELSE Absent,
     !["arguments"] = IF sloppy THEN Data(Null, FALSE, FALSE) ELSE Absent,
     !["caller"] = IF sloppy THEN Data(Null, FALSE, FALSE) ELSE Absent]

KSlots == {Absent, Data(Str(3), TRUE, TRUE), Data(Str(3), FALSE, FALSE), Accessor(Str(3), TRUE)}

InitHeap(protoKind, kSlot, hasNative, hasOwnHasInstance, sloppy) ==
  << PlainObject(Null),
     [proto |-> Obj(ObjectPrototype), fn |-> "native", target |-> 0, context |-> Undefined,
      props |-> [NoProps EXCEPT
         !["length"] = Data(PosZero, FALSE, TRUE),
         !["name"] = Data(Str(0), FALSE, TRUE),
         !["@@hasInstance"] = Data(OrdinaryHasInstanceFn, FALSE, FALSE)]],
     PlainObject(Obj(ObjectPrototype)),
     [proto |-> Obj(FunctionPrototype), fn |-> "native", target |-> 0, context |-> Undefined,
      props |-> FProps(protoKind, kSlot, hasNative, hasOwnHasInstance, sloppy)],
     PlainObject(Obj(ObjectPrototype)),
     PlainObject(IF protoKind = "object" THEN Obj(FPrototype) ELSE Obj(ObjectPrototype)),
     PlainObject(Obj(ObjectPrototype)) >>

InitBind ==
  /\ \E protoKind \in {"object", "null", "absent"}, kSlot \in KSlots,
        hasNative \in BOOLEAN, hasOwnHasInstance \in BOOLEAN, sloppy \in BOOLEAN :
       heap = InitHeap(protoKind, kSlot, hasNative, hasOwnHasInstance, sloppy)
  /\ trace = NoTrace

Functions == {f \in 1..Len(heap) : f = F \/ heap[f].fn = "bound"}
Wrappers == {f \in 1..Len(heap) : heap[f].fn = "bound"}
Contexts == {Undefined, Obj(Unrelated)}
Receivers == {Undefined, Obj(Unrelated), Obj(Instance)}
ArgLists == {<<>>, <<Num(1)>>}

\* the interception layer binds function fn to context
Bind(fn, context) ==
  /\ Cardinality(Wrappers) < MaxBinds
  /\ LET r == bind(heap, fn, context) IN
     /\ heap' = r.h
     /\ trace' = [NoTrace EXCEPT !.op = "bind", !.wrapper = r.bound, !.fn = fn,
                    !.copied = r.copied]

\* guest code: w.call(receiver, ...args). A call or a construction leaves the
\* heap as it was (what it allocates is reachable from its result only), so the
\* runs that make one right after a bind reach every state.
Call(w, receiver, args) ==
  /\ trace.op = "bind"
  /\ LET r == runBound(heap, w, receiver, args) IN
     trace' = [NoTrace EXCEPT !.op = "call", !.wrapper = w, !.fn = heap[w].target,
                 !.receiver = receiver, !.args = args, !.calls = r.calls,
                 !.result = r.result,
                 !.resultProto = IF IsObjectValue(r.result)
                                 THEN r.h[r.result.n].proto ELSE Undefined]
  /\ UNCHANGED heap

\* guest code: new w(...args)
New(w, args) ==
  /\ trace.op = "bind"
  /\ LET r == Invoke(heap, w, "construct", Undefined, args) IN
     trace' = [NoTrace EXCEPT !.op = "new", !.wrapper = w, !.fn = heap[w].target,
                 !.args = args, !.calls = r.calls, !.result = r.result,
                 !.resultProto = IF IsObjectValue(r.result)
                                 THEN r.h[r.result.n].proto ELSE Undefined]
  /\ UNCHANGED heap

NextBind ==
  \/ \E fn \in Functions, c \in Contexts : Bind(fn, c) /\ UNCHANGED <<verifyVars, observerVars>>
  \/ \E w \in Wrappers, r \in Receivers, a \in ArgLists :
       Call(w, r, a) /\ UNCHANGED <<verifyVars, observerVars>>
  \/ \E w \in Wrappers, a \in ArgLists : New(w, a) /\ UNCHANGED <<verifyVars, observerVars>>



(***************************************************************************)
(* Properties of the descriptor invariant checker (SpecVerify)             *)
(***************************************************************************)
\* the same value: NaN with NaN, and otherwise equal kind and payload, so
\* that +0 and -0 differ
SameValue(a, b) ==
  \/ a.k = "NaN" /\ b.k = "NaN"
  \/ a.k # "NaN" /\ b.k # "NaN" /\ a.k = b.k /\ a.n = b.n

IsValueDescriptor(d) == d # Undefined /\ "value" \in DOMAIN d
IsAccessor(d) == d # Undefined /\ "get" \in DOMAIN d

\* C1: verifySetterDescriptor is decided by the target's own descriptor d alone:
\* 0 when d is absent or configurable; for a non-configurable non-writable value
\* descriptor 3 when the new value is the same value as d.value and 1 otherwise;
\* 2 for a non-configurable accessor without setter; 0 in every other case.
C1_SetterClassification ==
  verdict.op = "verifySetterDescriptor" =>
    LET d == objects[verdict.target.n] IN
    verdict.code =
      IF d = Undefined THEN 0
      ELSE IF d.configurable THEN 0
      ELSE IF IsValueDescriptor(d) /\ ~d.writable
           THEN (IF SameValue(verdict.val, d.value) THEN 3 ELSE 1)
      ELSE IF IsAccessor(d) /\ d.set = Undefined THEN 2
      ELSE 0

\* a write of NaN over a stored NaN, and of +0 over a stored -0, have been classified
C1_Witness ==
  /\ verdict.op = "verifySetterDescriptor"
  /\ objects[verdict.target.n] \in DataDescriptors
  /\ ~objects[verdict.target.n].configurable
  /\ ~objects[verdict.target.n].writable
  /\ \/ verdict.val = NaN /\ objects[verdict.target.n].value = NaN /\ verdict.code = 3
     \/ verdict.val = PosZero /\ objects[verdict.target.n].value = NegZero /\ verdict.code = 1

\* C5: verifySetter classifies the write against one authority (proxyTarget if
\* present, else receiver if present, else target) and returns false for 1 and 2,
\* true for 3 and undefined for 0.
C5_SetterVerdict ==
  verdict.op = "verifySetter" =>
    LET authority == IF verdict.proxyTarget.k = "object" THEN verdict.proxyTarget
                     ELSE IF verdict.receiver.k = "object" THEN verdict.receiver
                     ELSE verdict.target
        d == objects[authority.n]
        class == IF d = Undefined THEN 0
                 ELSE IF d.configurable THEN 0
                 ELSE IF IsValueDescriptor(d) /\ ~d.writable
                      THEN (IF SameValue(verdict.val, d.value) THEN 3 ELSE 1)
                 ELSE IF IsAccessor(d) /\ d.set = Undefined THEN 2
                 ELSE 0 IN
    verdict.result = CASE class \in {1, 2} -> False
                       [] class = 3 -> True
                       [] OTHER -> Undefined

\* the receiver was the authority and allowed a no-op write that the target's
\* own descriptor would have rejected
C5_Witness ==
  /\ verdict.op = "verifySetter"
  /\ verdict.proxyTarget = Undefined
  /\ verdict.receiver = Obj(3)
  /\ verdict.result = True
  /\ verifySetterDescriptor(verdict.target, verdict.val) \in {1, 2}

\* C6: verifyGetterDescriptor is decided by the target's own descriptor d alone:
\* 0 when d is absent or configurable; for a non-configurable non-writable value
\* descriptor 1 exactly when the value is not the same value as d.value; 2 for a
\* non-configurable accessor without getter; 0 otherwise; never 3.
C6_GetterClassification ==
  verdict.op = "verifyGetterDescriptor" =>
    LET d == objects[verdict.target.n] IN
    /\ verdict.code # 3
    /\ verdict.code =
         IF d = Undefined THEN 0
         ELSE IF d.configurable THEN 0
         ELSE IF IsValueDescriptor(d) /\ ~d.writable
              THEN (IF SameValue(verdict.val, d.value) THEN 0 ELSE 1)
         ELSE IF IsAccessor(d) /\ d.get = Undefined THEN 2
         ELSE 0

\* a get of NaN against a stored NaN was allowed, or of -0 against +0 rejected
C6_Witness ==
  /\ verdict.op = "verifyGetterDescriptor"
  /\ objects[verdict.target.n] \in DataDescriptors
  /\ ~objects[verdict.target.n].configurable
  /\ ~objects[verdict.target.n].writable
  /\ \/ verdict.val = NaN /\ objects[verdict.target.n].value = NaN /\ verdict.code = 0
     \/ verdict.val = NegZero /\ objects[verdict.target.n].value = PosZero /\ verdict.code = 1

(***************************************************************************)
(* Properties of the scoped resource tracker (SpecObserver)                *)
(***************************************************************************)
Created == 1..Len(observers)
Disposals(o) == observers[o].individual + observers[o].recovery
FirstRecoverReturned(s) ==
  lastOp.op = "recover" /\ lastOp.sandbox = s /\ lastOp.first

\* C2 as stated: when recover() returns the tracked set is empty and every
\* observer constructed with collection enabled has had its real disposal invoked
\* exactly once in total.
C2_ExactlyOnceInTotal ==
  \A s \in Sandboxes :
    FirstRecoverReturned(s) =>
      /\ observerSet[s] = <<>>
      /\ \A o \in Created :
           observers[o].owner = s /\ observers[o].collected => Disposals(o) = 1

\* C2 amended: when recover() returns the tracked set is empty; recovery has
\* disposed exactly the observers that had never been disconnected individually
\* and still expose a callable disconnect, each once, so that none is disposed both
\* ways and recovery performs N minus the individually disconnected (and the
\* non-callable) disposals; an observer's individual disconnect() calls each
\* invoke the real disposal, however many there are.
C2_RecoverDisposesTheRest ==
  \A s \in Sandboxes :
    FirstRecoverReturned(s) =>
      LET mine == {o \in Created : observers[o].owner = s /\ observers[o].collected}
          skipped == {o \in mine : observers[o].individual > 0 \/ ~observers[o].callable} IN
      /\ observerSet[s] = <<>>
      /\ \A o \in mine :
           /\ observers[o].recovery =
                (IF observers[o].individual = 0 /\ observers[o].callable THEN 1 ELSE 0)
           /\ ~(observers[o].individual > 0 /\ observers[o].recovery > 0)
      /\ Cardinality({o \in mine : observers[o].recovery = 1})
           = Cardinality(mine) - Cardinality(skipped)

\* two observers were created, one was disconnected individually, and the first
\* recover() disposed the other one only
C2_Witness ==
  /\ FirstRecoverReturned("A")
  /\ Len(observers) = 2
  /\ \A o \in Created : observers[o].owner = "A" /\ observers[o].collected
  /\ observers[1].individual = 1 /\ observers[1].recovery = 0
  /\ observers[2].individual = 0 /\ observers[2].recovery = 1

\* C8: an observer constructed while disableCollect is true is never in a tracked
\* set and is never disposed by recover(); one constructed while it is false is in
\* its sandbox's set right after construction.
C8_DisabledCollection ==
  /\ \A o \in Created :
       ~observers[o].collected =>
         /\ \A s \in Sandboxes : ~SetHas(observerSet[s], o)
         /\ observers[o].recovery = 0
  /\ lastOp.op = "construct" /\ observers[lastOp.observer].collected =>
       SetHas(observerSet[lastOp.sandbox], lastOp.observer)

\* recover() has run on a sandbox that owns an observer made with collection disabled
C8_Witness ==
  /\ lastOp.op = "recover"
  /\ \E o \in Created :
       /\ observers[o].owner = lastOp.sandbox
       /\ ~observers[o].collected
       /\ observers[o].callable
       /\ observers[o].individual = 0

C9_OwnSetOnly ==
  \A s \in Sandboxes : \A o \in Created :
    SetHas(observerSet[s], o) => observers[o].owner = s

C9_RecoverFrame ==
  lastOp'.op = "recover" =>
    /\ \A t \in Sandboxes \ {lastOp'.sandbox} : observerSet'[t] = observerSet[t]
    /\ \A o \in Created :
         observers[o].owner # lastOp'.sandbox => observers'[o] = observers[o]

\* C9: an observer is only ever a member of the tracked set of the sandbox that
\* constructed it, and a sandbox's recover() leaves the other sandbox's set
\* unchanged and disposes none of the other sandbox's observers.
C9_SandboxIsolation == [](C9_OwnSetOnly) /\ [][C9_RecoverFrame]_vars

\* A's recover() has disposed an observer of A while B still tracks one of its own
C9_Witness ==
  /\ lastOp.op = "recover" /\ lastOp.sandbox = "A"
  /\ \E o \in Created : observers[o].owner = "A" /\ observers[o].recovery = 1
  /\ \E o \in Created : observers[o].owner = "B" /\ SetHas(observerSet["B"], o)

(***************************************************************************)
(* Properties of the function identity binder (SpecBind)                   *)
(***************************************************************************)
\* C3: a plain call of the wrapper, whatever the receiver, invokes fn once with
\* invocation context ctx and the given arguments and returns that call's result;
\* it never takes the construction branch.
C3_PlainCallForwards ==
  trace.op = "call" =>
    /\ trace.calls # <<>>
    /\ trace.calls[1] = [fn |-> trace.fn, mode |-> "apply",
                         this |-> heap[trace.wrapper].context, args |-> trace.args]
    /\ trace.result =
         Invoke(heap, trace.fn, "apply", heap[trace.wrapper].context, trace.args).result

\* C4: new (bind(fn, ctx))(...A) constructs fn with A, and the object returned has
\* the wrapper's prototype object as its prototype link, which is an object other
\* than fn.prototype whose own prototype link is fn.prototype.
C4_ConstructForwards ==
  trace.op = "new" =>
    LET wp == Get(heap, trace.wrapper, "prototype") IN
    /\ trace.calls # <<>>
    /\ trace.calls[1].mode = "construct"
    /\ trace.calls[1].fn = trace.fn
    /\ trace.calls[1].args = trace.args
    /\ trace.resultProto = wp
    /\ wp # Get(heap, trace.fn, "prototype")
    /\ heap[wp.n].proto = Get(heap, trace.fn, "prototype")

ProtectedNames == {"length", "caller", "callee", "arguments", "prototype", "@@hasInstance"}

\* C7: after bind(fn, ctx) the wrapper exposes every own key of fn that is not a
\* protected name with the value fn has for it, and no protected name has been
\* copied from fn: the wrapper keeps its own length, prototype and instance check
\* and has no own caller, callee or arguments.
C7_StaticPropertyFidelity ==
  trace.op = "bind" =>
    LET w == trace.wrapper
        fn == trace.fn IN
    /\ \A key \in Keys \ ProtectedNames :
         heap[fn].props[key].kind # "absent" => Get(heap, w, key) = Get(heap, fn, key)
    /\ trace.copied \cap ProtectedNames = {}
    /\ heap[w].props["length"] = Data(PosZero, FALSE, TRUE)
    /\ heap[w].props["prototype"].value = Obj(w + 1)
    /\ heap[w].props["@@hasInstance"].value = BoundHasInstanceFn(fn)
    /\ \A key \in {"caller", "callee", "arguments"} : heap[w].props[key].kind = "absent"

\* F, with a static accessor k, an own Symbol.hasInstance and own
\* caller / arguments, has been bound
C7_Witness ==
  /\ trace.op = "bind"
  /\ trace.fn = F
  /\ heap[F].props["k"].kind = "accessor"
  /\ heap[F].props["@@hasInstance"].kind = "data"
  /\ heap[F].props["arguments"].kind = "data"
  /\ Get(heap, trace.wrapper, "k") = Str(3)
  /\ Get(heap, trace.wrapper, "name") = Str(2)

\* C10: when bind(fn, ctx) returns, the wrapper's $native is fn.
C10_NativeIsFn ==
  trace.op = "bind" => Get(heap, trace.wrapper, "$native") = Obj(trace.fn)

VerifyStart == InitVerify /\ BindIdle /\ ObserverIdle
BindStart == InitBind /\ VerifyIdle /\ ObserverIdle
ObserverStart == InitObserver /\ BindIdle /\ VerifyIdle

SpecVerify == VerifyStart /\ [][NextVerify]_vars
SpecBind == BindStart /\ [][NextBind]_vars
SpecObserver == ObserverStart /\ [][NextObserver]_vars

====
